---------------------------- MODULE Spec2Model ----------------------------
(***************************************************************************)
(* Model of server/monitor-types/system-service.js: the system-service     *)
(* monitor type.  One behaviour is one invocation of check(): the          *)
(* synchronous part of check() (dispatch, validation, target parsing,      *)
(* command construction, spawn) is the action Check; the completion of     *)
(* the spawned subprocess (exit, spawn error, timeout) runs the strategy's *)
(* execFile callback.                                                      *)
(*                                                                         *)
(* JavaScript strings are sequences of one-character strings, so that      *)
(* trim, substring, replace and concatenation are computed, not assumed.   *)
(***************************************************************************)
EXTENDS Integers, Sequences, FiniteSets, TLC

VARIABLES
    monitor,      \* the monitor object handed to check()
    platform,     \* process.platform of the host
    heartbeat,    \* the caller-owned heartbeat object
    heartbeat0,   \* the heartbeat as the caller handed it in
    pc,           \* "idle" | "waiting" | "resolved" | "rejected"
    called,       \* the strategies check() delegated to, in order
    proc,         \* the subprocess of this invocation
    spawned,      \* number of execFile calls of this invocation
    error,        \* message of the Error check() rejected with
    exec,         \* what the execFile callback received
    fn,           \* pure-function specifications: "trimOutput" | "escapeSshArg" | "none"
    arg,          \* pure-function specifications: the input
    ret           \* pure-function specifications: the result

vars == <<monitor, platform, heartbeat, heartbeat0, pc, called, proc, spawned,
          error, exec, fn, arg, ret>>

---------------------------------------------------------------------------
(* Bounds of the model *)

\* length of the long subprocess outputs
LongLen == 500
\* escapeSshArg: longest single argument enumerated
MaxArgLen == 3
\* escapeSshArg: longest argument in an enumerated two-argument list
MaxPairLen == 1
\* trimOutput: longest whitespace padding enumerated on each side
MaxPad == 2
\* trimOutput: length of the short capture
ShortLen == 50

---------------------------------------------------------------------------
(* JavaScript string primitives *)

Rep(c, n) == [i \in 1..n |-> c]

\* the element of a singleton: { e : x \in {a} } binds x to the value of a, so that
\* a is evaluated once however often e reads x
The(S) == CHOOSE r \in S : TRUE

\* a || b on strings: the empty string is falsy
JsOr(a, b) == IF a # <<>> THEN a ELSE b

\* String.prototype.trim's white space (the part of it the inputs use)
WhiteSpace == {" ", "\n", "\t", "\r"}

RECURSIVE SkipWhiteSpace(_, _, _)
\* the first index from i on, stepping by d, that holds no white space
SkipWhiteSpace(s, i, d) ==
    IF i < 1 \/ i > Len(s) THEN i
    ELSE IF s[i] \in WhiteSpace THEN SkipWhiteSpace(s, i + d, d)
    ELSE i

\* String.prototype.trim
Trim(s) ==
    LET lo == SkipWhiteSpace(s, 1, 1)
    IN  IF lo > Len(s) THEN <<>>
        ELSE SubSeq(s, lo, SkipWhiteSpace(s, Len(s), -1))

\* String.prototype.substring(0, n)
Substring0(s, n) == SubSeq(s, 1, IF n < Len(s) THEN n ELSE Len(s))

RECURSIVE Join(_, _)
\* Array.prototype.join
Join(parts0, sep) ==
    The({ IF parts = <<>> THEN <<>>
          ELSE IF Len(parts) = 1 THEN parts[1]
          ELSE parts[1] \o sep \o Join(Tail(parts), sep) :
          parts \in {parts0} })

RECURSIVE ReplaceAllChar(_, _, _)
\* String.prototype.replace(/c/g, by) and replaceAll(c, by) for a one-character c
ReplaceAllChar(s0, c, by) ==
    The({ IF s = <<>> THEN <<>>
          ELSE (IF Head(s) = c THEN by ELSE <<Head(s)>>) \o ReplaceAllChar(Tail(s), c, by) :
          s \in {s0} })

---------------------------------------------------------------------------
(* trimOutput, escapeSshArg *)

SSH_OUTPUT_MAX_CHARS == 200

Ellipsis == <<".", ".", ".">>

\* a plausible slip: the marker is appended but the text is never cut
trimOutput_NoCut(output) ==
    The({ IF Len(text) > SSH_OUTPUT_MAX_CHARS THEN text \o Ellipsis ELSE text :
          text \in {Trim(JsOr(output, <<>>))} })

\* a plausible slip: >= in place of >
trimOutput_OffByOne(output) ==
    The({ IF Len(text) >= SSH_OUTPUT_MAX_CHARS THEN Substring0(text, SSH_OUTPUT_MAX_CHARS) \o Ellipsis ELSE text :
          text \in {Trim(JsOr(output, <<>>))} })

trimOutput(output) ==
    The({ IF Len(text) > SSH_OUTPUT_MAX_CHARS THEN Substring0(text, SSH_OUTPUT_MAX_CHARS) \o Ellipsis ELSE text :
          text \in {Trim(JsOr(output, <<>>))} })

\* the sequence an embedded single quote is replaced by: '"'"'
QuoteEscape == <<"'", "\"", "'", "\"", "'">>

\* a plausible slip: the backslash form written inside the single quotes
escapeSshArg_Backslash(a) ==
    IF a = <<>> THEN <<"'", "'">>
    ELSE <<"'">> \o ReplaceAllChar(a, "'", <<"\\", "'">>) \o <<"'">>

escapeSshArg(a) ==
    IF a = <<>> THEN <<"'", "'">>
    ELSE <<"'">> \o ReplaceAllChar(a, "'", QuoteEscape) \o <<"'">>

\* remoteArgs.map(escapeSshArg).join(" ")
RemoteCommand(remoteArgs) ==
    Join([i \in 1..Len(remoteArgs) |-> escapeSshArg(remoteArgs[i])], <<" ">>)

---------------------------------------------------------------------------
(* Character classes and the service-name allow-lists *)

Lower == {"a","b","c","d","e","f","g","h","i","j","k","l","m","n","o","p","q","r","s","t","u","v","w","x","y","z"}
Upper == {"A","B","C","D","E","F","G","H","I","J","K","L","M","N","O","P","Q","R","S","T","U","V","W","X","Y","Z"}
Digit == {"0","1","2","3","4","5","6","7","8","9"}
Alnum == Lower \cup Upper \cup Digit

\* a plausible slip: the blank let through
TestLinuxName_AllowsSpace(s) ==
    /\ Len(s) > 0
    /\ \A i \in 1..Len(s) : s[i] \in Alnum \cup {".", "_", "-", "@", " "}

\* /^[a-zA-Z0-9._\-@]+$/.test(s)
TestLinuxName(s) ==
    /\ Len(s) > 0
    /\ \A i \in 1..Len(s) : s[i] \in Alnum \cup {".", "_", "-", "@"}

\* /^[A-Za-z0-9._-]+$/.test(s)
TestWindowsName(s) ==
    /\ Len(s) > 0
    /\ \A i \in 1..Len(s) : s[i] \in Alnum \cup {".", "_", "-"}

---------------------------------------------------------------------------
(* new URL(s), as far as parseSshUrl reads it: protocol, username,          *)
(* hostname, port.  Inputs carry no upper-case scheme, no IPv6 literal and  *)
(* no leading or trailing control characters.                               *)

SpecialSchemes ==
    { <<"h","t","t","p">>, <<"h","t","t","p","s">>, <<"f","t","p">>,
      <<"w","s">>, <<"w","s","s">>, <<"f","i","l","e">> }

\* code points an opaque host may not hold
ForbiddenHost == {" ", "#", "/", ":", "<", ">", "?", "@", "[", "\\", "]", "^", "|", "\n", "\t", "\r"}

MinOf(S) == CHOOSE i \in S : \A j \in S : i <= j
MaxOf(S) == CHOOSE i \in S : \A j \in S : j <= i

DigitVal(c) ==
    CASE c = "0" -> 0 [] c = "1" -> 1 [] c = "2" -> 2 [] c = "3" -> 3 [] c = "4" -> 4
      [] c = "5" -> 5 [] c = "6" -> 6 [] c = "7" -> 7 [] c = "8" -> 8 [] c = "9" -> 9

RECURSIVE DecVal(_)
DecVal(s) == IF s = <<>> THEN 0 ELSE DecVal(SubSeq(s, 1, Len(s) - 1)) * 10 + DigitVal(s[Len(s)])

RECURSIVE DropLeading(_, _)
DropLeading(s, cs) == IF s # <<>> /\ Head(s) \in cs THEN DropLeading(Tail(s), cs) ELSE s

UrlFailure == [ok |-> FALSE, protocol |-> <<>>, username |-> <<>>, hostname |-> <<>>, port |-> <<>>]

\* the port as url.port gives it: its leading zeros dropped
UrlPort(portS) ==
    IF portS = <<>> THEN <<>>
    ELSE IF DropLeading(portS, {"0"}) = <<>> THEN <<"0">>
    ELSE DropLeading(portS, {"0"})

\* the host and port of the authority, and the URL record (the default port of a
\* special scheme is not dropped: parseSshUrl rejects those schemes before it reads
\* the port)
UrlHost(scheme, special, hasCred, user, host0, hasPort, portS0) ==
    The({ IF \/ \E i \in 1..Len(portS) : portS[i] \notin Digit
             \/ Len(portS) > 5
             \/ DecVal(portS) > 65535
             \/ \E i \in 1..Len(host) : host[i] \in ForbiddenHost
             \/ host = <<>> /\ (special \/ hasCred \/ hasPort)
          THEN UrlFailure
          ELSE [ok |-> TRUE, protocol |-> scheme \o <<":">>, username |-> user,
                hostname |-> host, port |-> UrlPort(portS)] :
          host \in {host0}, portS \in {portS0} })

\* the authority without its credentials: host[:port]
UrlHostPort(scheme, special, hasCred, user, hostport0) ==
    The({ IF hcol = {} THEN UrlHost(scheme, special, hasCred, user, hostport, FALSE, <<>>)
          ELSE UrlHost(scheme, special, hasCred, user, SubSeq(hostport, 1, MinOf(hcol) - 1),
                       TRUE, SubSeq(hostport, MinOf(hcol) + 1, Len(hostport))) :
          hostport \in {hostport0},
          hcol \in { {i \in 1..Len(hostport0) : hostport0[i] = ":"} } })

\* the user name of the credentials: what precedes their first colon
UrlUser(cred0) ==
    The({ IF ccol = {} THEN cred ELSE SubSeq(cred, 1, MinOf(ccol) - 1) :
          cred \in {cred0}, ccol \in { {i \in 1..Len(cred0) : cred0[i] = ":"} } })

\* the authority: [user[:password]@]host[:port], split at its last @
UrlAuthority(scheme, special, auth0) ==
    The({ IF ats = {} THEN UrlHostPort(scheme, special, FALSE, <<>>, auth)
          ELSE UrlHostPort(scheme, special, TRUE, UrlUser(SubSeq(auth, 1, MaxOf(ats) - 1)),
                           SubSeq(auth, MaxOf(ats) + 1, Len(auth))) :
          auth \in {auth0}, ats \in { {i \in 1..Len(auth0) : auth0[i] = "@"} } })

\* what follows the slashes, up to the path, query or fragment
UrlAfterSlashes(scheme, special, after0) ==
    The({ IF stops = {} THEN UrlAuthority(scheme, special, after)
          ELSE UrlAuthority(scheme, special, SubSeq(after, 1, MinOf(stops) - 1)) :
          after \in {after0},
          stops \in { {i \in 1..Len(after0) :
                        after0[i] \in (IF special THEN {"/", "?", "#", "\\"} ELSE {"/", "?", "#"})} } })

\* what follows the scheme and its colon
UrlAfterScheme(scheme0, rest0) ==
    The({ IF scheme \in SpecialSchemes
          THEN UrlAfterSlashes(scheme, TRUE, DropLeading(rest, {"/", "\\"}))
          ELSE IF Len(rest) >= 2 /\ rest[1] = "/" /\ rest[2] = "/"
          THEN UrlAfterSlashes(scheme, FALSE, SubSeq(rest, 3, Len(rest)))
          ELSE \* a path-only or opaque-path URL: no host
               [ok |-> TRUE, protocol |-> scheme \o <<":">>, username |-> <<>>,
                hostname |-> <<>>, port |-> <<>>] :
          scheme \in {scheme0}, rest \in {rest0} })

\* the scheme ends at the first colon
UrlScheme(s, c0) ==
    The({ IF /\ c > 1
             /\ s[1] \in Lower \cup Upper
             /\ \A j \in 2..(c - 1) : s[j] \in Alnum \cup {"+", "-", "."}
          THEN UrlAfterScheme(SubSeq(s, 1, c - 1), SubSeq(s, c + 1, Len(s)))
          ELSE UrlFailure :
          c \in {c0} })

\* [ok, protocol, username, hostname, port]; ok = FALSE is the TypeError of new URL
NewURL(s) ==
    IF \A i \in 1..Len(s) : s[i] # ":" THEN UrlFailure
    ELSE UrlScheme(s, MinOf({i \in 1..Len(s) : s[i] = ":"}))

---------------------------------------------------------------------------
(* decodeURIComponent, for escapes of one byte *)

\* the grave accent (code 96), which a TLA+ string literal cannot hold
Backtick == "bq"

AsciiPrintable == <<" ","!","\"","#","$","%","&","'","(",")","*","+",",","-",".","/","0","1","2","3","4","5","6","7","8","9",":",";","<","=",">","?","@","A","B","C","D","E","F","G","H","I","J","K","L","M","N","O","P","Q","R","S","T","U","V","W","X","Y","Z","[","\\","]","^","_",Backtick,"a","b","c","d","e","f","g","h","i","j","k","l","m","n","o","p","q","r","s","t","u","v","w","x","y","z","{","|","}","~">>

HexDigits == Digit \cup {"a","b","c","d","e","f","A","B","C","D","E","F"}

HexVal(c) ==
    IF c \in Digit THEN DigitVal(c)
    ELSE CASE c \in {"a", "A"} -> 10 [] c \in {"b", "B"} -> 11 [] c \in {"c", "C"} -> 12
           [] c \in {"d", "D"} -> 13 [] c \in {"e", "E"} -> 14 [] c \in {"f", "F"} -> 15

RECURSIVE decodeURIComponent(_)
\* [ok, value]; ok = FALSE is the URIError of a malformed escape
decodeURIComponent(s) ==
    IF s = <<>> THEN [ok |-> TRUE, value |-> <<>>]
    ELSE IF Head(s) # "%"
    THEN LET r == decodeURIComponent(Tail(s))
         IN  [ok |-> r.ok, value |-> <<Head(s)>> \o r.value]
    ELSE IF Len(s) < 3 \/ s[2] \notin HexDigits \/ s[3] \notin HexDigits
    THEN [ok |-> FALSE, value |-> <<>>]
    ELSE LET n == 16 * HexVal(s[2]) + HexVal(s[3])
             r == decodeURIComponent(SubSeq(s, 4, Len(s)))
         IN  IF n \in 32..126
             THEN [ok |-> r.ok, value |-> <<AsciiPrintable[n - 31]>> \o r.value]
             ELSE IF n = 10 THEN [ok |-> r.ok, value |-> <<"\n">> \o r.value]
             ELSE [ok |-> FALSE, value |-> <<>>]

---------------------------------------------------------------------------
(* parseSshUrl *)

MsgInvalidSshUrl == <<"I","n","v","a","l","i","d"," ","S","S","H"," ","U","R","L",".">>
MsgSshScheme == <<"S","S","H"," ","U","R","L"," ","m","u","s","t"," ","s","t","a","r","t"," ","w","i","t","h"," ","s","s","h",":","/","/">>
MsgSshHostname == <<"S","S","H"," ","U","R","L"," ","r","e","q","u","i","r","e","s"," ","a"," ","h","o","s","t","n","a","m","e",".">>
MsgUriMalformed == <<"U","R","I"," ","m","a","l","f","o","r","m","e","d">>

ParseFailure(msg) == [ok |-> FALSE, message |-> msg, userHost |-> <<>>, port |-> <<>>]

\* the user name, percent-decoded, before the host
UserHost(u0, hostname, port) ==
    The({ IF ~u.ok THEN ParseFailure(MsgUriMalformed)
          ELSE [ok |-> TRUE, message |-> <<>>, userHost |-> u.value \o <<"@">> \o hostname,
                port |-> port] :
          u \in {u0} })

\* parseSshUrl from the URL object on
parseUrl(url0) ==
    The({ IF ~url.ok THEN ParseFailure(MsgInvalidSshUrl)
          ELSE IF url.protocol # <<"s", "s", "h", ":">> THEN ParseFailure(MsgSshScheme)
          ELSE IF url.hostname = <<>> THEN ParseFailure(MsgSshHostname)
          ELSE IF url.username # <<>>
          THEN UserHost(decodeURIComponent(url.username), url.hostname, url.port)
          ELSE [ok |-> TRUE, message |-> <<>>, userHost |-> url.hostname, port |-> url.port] :
          url \in {url0} })

\* [ok, message, userHost, port]; ok = FALSE is a thrown Error with that message;
\* port <<>> is null
parseSshUrl(sshUrl) == parseUrl(NewURL(sshUrl))

---------------------------------------------------------------------------
(* String constants of the module *)

UP == 1
DOWN == 0
PENDING == 2

StrLinux == <<"l","i","n","u","x">>
StrWin32 == <<"w","i","n","3","2">>
StrDarwin == <<"d","a","r","w","i","n">>
StrSsh == <<"s","s","h">>
StrLocal == <<"l","o","c","a","l">>
StrActive == <<"a","c","t","i","v","e">>
StrRunning == <<"R","u","n","n","i","n","g">>
StrSystemctl == <<"s","y","s","t","e","m","c","t","l">>
StrIsActive == <<"i","s","-","a","c","t","i","v","e">>
StrPowershell == <<"p","o","w","e","r","s","h","e","l","l">>
StrNoProfile == <<"-","N","o","P","r","o","f","i","l","e">>
StrNonInteractive == <<"-","N","o","n","I","n","t","e","r","a","c","t","i","v","e">>
StrCommand == <<"-","C","o","m","m","a","n","d">>

MsgServiceNameRequired == <<"S","e","r","v","i","c","e"," ","N","a","m","e"," ","i","s"," ","r","e","q","u","i","r","e","d",".">>
MsgSshTargetRequired == <<"S","S","H"," ","T","a","r","g","e","t"," ","i","s"," ","r","e","q","u","i","r","e","d",".">>
MsgInvalidNameLinux == <<"I","n","v","a","l","i","d"," ","s","e","r","v","i","c","e"," ","n","a","m","e","."," ","P","l","e","a","s","e"," ","u","s","e"," ","t","h","e"," ","i","n","t","e","r","n","a","l"," ","S","e","r","v","i","c","e"," ","N","a","m","e"," ","(","n","o"," ","s","p","a","c","e","s",")",".">>
MsgInvalidNameWindows == <<"I","n","v","a","l","i","d"," ","s","e","r","v","i","c","e"," ","n","a","m","e","."," ","O","n","l","y"," ","a","l","p","h","a","n","u","m","e","r","i","c"," ","c","h","a","r","a","c","t","e","r","s"," ","a","n","d"," ","'",".","'",","," ","'","_","'",","," ","'","-","'"," ","a","r","e"," ","a","l","l","o","w","e","d",".">>
MsgFailedSsh == <<"F","a","i","l","e","d"," ","t","o"," ","e","x","e","c","u","t","e"," ","c","o","m","m","a","n","d"," ","o","v","e","r"," ","S","S","H">>
TxtNotRunning == <<"n","o","t"," ","r","u","n","n","i","n","g">>
TxtNotRunningFound == <<"n","o","t"," ","r","u","n","n","i","n","g","/","f","o","u","n","d">>
TxtRunning == <<"r","u","n","n","i","n","g">>

\* `System Service monitoring is not supported on ${process.platform}`
MsgUnsupportedLocal(os) ==
    <<"S","y","s","t","e","m"," ","S","e","r","v","i","c","e"," ","m","o","n","i","t","o","r","i","n","g"," ","i","s"," ","n","o","t"," ","s","u","p","p","o","r","t","e","d"," ","o","n"," ">> \o os

\* `System Service SSH monitoring is not supported on ${platform}`
MsgUnsupportedSsh(p) ==
    <<"S","y","s","t","e","m"," ","S","e","r","v","i","c","e"," ","S","S","H"," ","m","o","n","i","t","o","r","i","n","g"," ","i","s"," ","n","o","t"," ","s","u","p","p","o","r","t","e","d"," ","o","n"," ">> \o p

\* `Service '${serviceName}' is ${what}.`
ServiceIs(serviceName, what) ==
    <<"S","e","r","v","i","c","e"," ","'">> \o serviceName \o <<"'"," ","i","s"," ">> \o what \o <<".">>

\* "(Get-Service -Name '" + serviceName.replaceAll("'", "''") + "').Status"
GetServiceCommand(serviceName) ==
    <<"(","G","e","t","-","S","e","r","v","i","c","e"," ","-","N","a","m","e"," ","'">>
        \o ReplaceAllChar(serviceName, "'", <<"'", "'">>)
        \o <<"'",")",".","S","t","a","t","u","s">>

---------------------------------------------------------------------------
(* execFile: the error object its callback receives *)

NoError == [kind |-> "none", message |-> <<>>]

\* kind: "exit" (non-zero exit code), "timeout" (killed after the timeout),
\* "spawn" (the program could not be started)
ExecError(kind, cmd, args, stderr) ==
    IF kind = "none" THEN NoError
    ELSE IF kind = "spawn"
    THEN [kind |-> kind,
          message |-> <<"s","p","a","w","n"," ">> \o cmd \o <<" ","E","N","O","E","N","T">>]
    ELSE [kind |-> kind,
          message |-> <<"C","o","m","m","a","n","d"," ","f","a","i","l","e","d",":"," ">>
                        \o Join(<<cmd>> \o args, <<" ">>) \o <<"\n">> \o stderr]

---------------------------------------------------------------------------
(* The synchronous part of check(): what it delegates to, what it spawns, *)
(* what it throws                                                         *)

Thrown(by, msg) == [called |-> by, spawns |-> <<>>, thrown |-> TRUE, message |-> msg]

Spawned(by, cmd, args) ==
    [called |-> <<by>>,
     spawns |-> << [by |-> by, cmd |-> cmd, args |-> args, state |-> "running"] >>,
     thrown |-> FALSE, message |-> <<>>]

\* sshArgs of execSshCommand
SshArgs(parsed, remoteArgs) ==
    << <<"-","o">>, <<"B","a","t","c","h","M","o","d","e","=","y","e","s">>,
       <<"-","o">>, <<"C","o","n","n","e","c","t","T","i","m","e","o","u","t","=","5">> >>
    \o (IF parsed.port # <<>> THEN << <<"-","p">>, parsed.port >> ELSE <<>>)
    \o << parsed.userHost, RemoteCommand(remoteArgs) >>

execSshCommandFrom(parsed0, remoteArgs) ==
    The({ IF ~parsed.ok THEN [ok |-> FALSE, message |-> parsed.message, args |-> <<>>]
          ELSE [ok |-> TRUE, message |-> <<>>, args |-> SshArgs(parsed, remoteArgs)] :
          parsed \in {parsed0} })

\* execSshCommand up to the call of execFile: [ok, message, args]; ok = FALSE is the
\* rejection with the Error parseSshUrl threw
execSshCommand(sshUrl, remoteArgs) == execSshCommandFrom(parseSshUrl(sshUrl), remoteArgs)

\* checkLinuxViaSSH from the await of execSshCommand on, as far as the spawn
checkLinuxViaSSHAwait(serviceName, e0) ==
    The({ IF ~e.ok
          THEN Thrown(<<"checkLinuxViaSSH">>,
                      ServiceIs(serviceName, JsOr(trimOutput(JsOr(e.message, <<>>)), TxtNotRunning)))
          ELSE Spawned("checkLinuxViaSSH", StrSsh, e.args) :
          e \in {e0} })

\* checkWindowsViaSSH from the await of execSshCommand on, as far as the spawn
checkWindowsViaSSHAwait(serviceName, e0) ==
    The({ IF ~e.ok
          THEN Thrown(<<"checkWindowsViaSSH">>, ServiceIs(serviceName, TxtNotRunningFound))
          ELSE Spawned("checkWindowsViaSSH", StrSsh, e.args) :
          e \in {e0} })

checkLinux(serviceName) ==
    IF serviceName = <<>> \/ ~TestLinuxName(serviceName)
    THEN Thrown(<<"checkLinux">>, MsgInvalidNameLinux)
    ELSE Spawned("checkLinux", StrSystemctl, <<StrIsActive, serviceName>>)

checkLinuxViaSSH(serviceName, sshUrl) ==
    IF serviceName = <<>> \/ ~TestLinuxName(serviceName)
    THEN Thrown(<<"checkLinuxViaSSH">>, MsgInvalidNameLinux)
    ELSE checkLinuxViaSSHAwait(serviceName,
            execSshCommand(sshUrl, <<StrSystemctl, StrIsActive, serviceName>>))

checkWindowsViaSSH(serviceName, sshUrl) ==
    IF ~TestWindowsName(serviceName)
    THEN Thrown(<<"checkWindowsViaSSH">>, MsgInvalidNameWindows)
    ELSE checkWindowsViaSSHAwait(serviceName,
            execSshCommand(sshUrl, <<StrPowershell, StrNoProfile, StrNonInteractive,
                                     StrCommand, GetServiceCommand(serviceName)>>))

checkWindows(serviceName) ==
    IF ~TestWindowsName(serviceName)
    THEN Thrown(<<"checkWindows">>, MsgInvalidNameWindows)
    ELSE Spawned("checkWindows", StrPowershell,
                 <<StrNoProfile, StrNonInteractive, StrCommand, GetServiceCommand(serviceName)>>)

\* a plausible slip: the win32 branch lacks its return, so the strategy is started
\* and the function runs on to its final throw
NoReturn(w0, p) ==
    The({ [called |-> w.called, spawns |-> w.spawns, thrown |-> TRUE,
           message |-> MsgUnsupportedSsh(p)] : w \in {w0} })

checkViaSSH_NoReturn(m) ==
    LET sshUrl == m.system_service_ssh_url
        p == JsOr(m.system_service_ssh_platform, StrLinux)
    IN  IF sshUrl = <<>> THEN Thrown(<<>>, MsgSshTargetRequired)
        ELSE IF p = StrWin32
        THEN NoReturn(checkWindowsViaSSH(m.system_service_name, sshUrl), p)
        ELSE IF p = StrLinux THEN checkLinuxViaSSH(m.system_service_name, sshUrl)
        ELSE Thrown(<<>>, MsgUnsupportedSsh(p))

checkViaSSH(m) ==
    LET sshUrl == m.system_service_ssh_url
        p == JsOr(m.system_service_ssh_platform, StrLinux)
    IN  IF sshUrl = <<>> THEN Thrown(<<>>, MsgSshTargetRequired)
        ELSE IF p = StrWin32 THEN checkWindowsViaSSH(m.system_service_name, sshUrl)
        ELSE IF p = StrLinux THEN checkLinuxViaSSH(m.system_service_name, sshUrl)
        ELSE Thrown(<<>>, MsgUnsupportedSsh(p))

check(m, os) ==
    IF m.system_service_name = <<>> THEN Thrown(<<>>, MsgServiceNameRequired)
    ELSE LET checkMethod == JsOr(m.system_service_check_method, StrLocal)
         IN  IF checkMethod = StrSsh THEN checkViaSSH(m)
             ELSE IF os = StrWin32 THEN checkWindows(m.system_service_name)
             ELSE IF os = StrLinux THEN checkLinux(m.system_service_name)
             ELSE Thrown(<<>>, MsgUnsupportedLocal(os))

---------------------------------------------------------------------------
(* The execFile callbacks: how each strategy settles *)

Resolve(hb, serviceName) ==
    [settle |-> "resolved", message |-> <<>>,
     heartbeat |-> [status |-> UP, msg |-> ServiceIs(serviceName, TxtRunning)]]

Reject(hb, msg) == [settle |-> "rejected", message |-> msg, heartbeat |-> hb]

\* (stderr || stdout || "").toString().trim(), cut to 200 characters plus "..."
CombinedOutput(stdout, stderr) ==
    The({ IF Len(output) > 200 THEN Substring0(output, 200) \o Ellipsis ELSE output :
          output \in {Trim(JsOr(stderr, JsOr(stdout, <<>>)))} })

checkLinuxCallback(serviceName, hb, err, stdout, stderr) ==
    The({ IF err.kind # "none"
          THEN Reject(hb, JsOr(output, ServiceIs(serviceName, TxtNotRunning)))
          ELSE Resolve(hb, serviceName) :
          output \in {CombinedOutput(stdout, stderr)} })

\* a plausible slip: the comparison made before the output is trimmed
checkWindowsCallback_Untrimmed(serviceName, hb, err, stdout, stderr) ==
    The({ IF err.kind # "none" \/ stderr # <<>>
          THEN Reject(hb, ServiceIs(serviceName, TxtNotRunningFound))
          ELSE IF JsOr(stderr, stdout) = StrRunning THEN Resolve(hb, serviceName)
          ELSE Reject(hb, ServiceIs(serviceName, output)) :
          output \in {CombinedOutput(stdout, stderr)} })

checkWindowsCallback(serviceName, hb, err, stdout, stderr) ==
    The({ IF err.kind # "none" \/ stderr # <<>>
          THEN Reject(hb, ServiceIs(serviceName, TxtNotRunningFound))
          ELSE IF output = StrRunning THEN Resolve(hb, serviceName)
          ELSE Reject(hb, ServiceIs(serviceName, output)) :
          output \in {CombinedOutput(stdout, stderr)} })

\* the callback of execSshCommand: [ok, value]; ok = FALSE rejects with the message value
execSshCommandCallback(err, stdout, stderr) ==
    IF err.kind # "none"
    THEN [ok |-> FALSE,
          value |-> JsOr(trimOutput(JsOr(stderr, JsOr(stdout, err.message))), MsgFailedSsh)]
    ELSE [ok |-> TRUE, value |-> JsOr(stdout, <<>>)]

\* a plausible slip: the status compared before it is trimmed
checkLinuxViaSSHCallback_Untrimmed(serviceName, hb, err, stdout, stderr) ==
    The({ IF ~r.ok
          THEN Reject(hb, ServiceIs(serviceName, JsOr(trimOutput(JsOr(r.value, <<>>)), TxtNotRunning)))
          ELSE IF r.value # StrActive
          THEN Reject(hb, ServiceIs(serviceName, JsOr(trimOutput(r.value), TxtNotRunning)))
          ELSE Resolve(hb, serviceName) :
          r \in {execSshCommandCallback(err, stdout, stderr)} })

\* a plausible slip: the heartbeat is written before the status is looked at
checkLinuxViaSSHCallback_WritesFirst(serviceName, hb, err, stdout, stderr) ==
    The({ IF ~r.ok
          THEN Reject(Resolve(hb, serviceName).heartbeat,
                      ServiceIs(serviceName, JsOr(trimOutput(JsOr(r.value, <<>>)), TxtNotRunning)))
          ELSE IF status # StrActive
          THEN Reject(Resolve(hb, serviceName).heartbeat,
                      ServiceIs(serviceName, JsOr(status, TxtNotRunning)))
          ELSE Resolve(hb, serviceName) :
          r \in {execSshCommandCallback(err, stdout, stderr)},
          status \in {trimOutput(execSshCommandCallback(err, stdout, stderr).value)} })

checkLinuxViaSSHCallback(serviceName, hb, err, stdout, stderr) ==
    The({ IF ~r.ok
          THEN Reject(hb, ServiceIs(serviceName, JsOr(trimOutput(JsOr(r.value, <<>>)), TxtNotRunning)))
          ELSE IF status # StrActive
          THEN Reject(hb, ServiceIs(serviceName, JsOr(status, TxtNotRunning)))
          ELSE Resolve(hb, serviceName) :
          r \in {execSshCommandCallback(err, stdout, stderr)},
          status \in {trimOutput(execSshCommandCallback(err, stdout, stderr).value)} })

checkWindowsViaSSHCallback(serviceName, hb, err, stdout, stderr) ==
    The({ IF ~r.ok
          THEN Reject(hb, ServiceIs(serviceName, TxtNotRunningFound))
          ELSE IF status = StrRunning THEN Resolve(hb, serviceName)
          ELSE Reject(hb, ServiceIs(serviceName, JsOr(status, TxtNotRunning))) :
          r \in {execSshCommandCallback(err, stdout, stderr)},
          status \in {trimOutput(execSshCommandCallback(err, stdout, stderr).value)} })

Callback(by, serviceName, hb, err, stdout, stderr) ==
    CASE by = "checkLinux" -> checkLinuxCallback(serviceName, hb, err, stdout, stderr)
      [] by = "checkWindows" -> checkWindowsCallback(serviceName, hb, err, stdout, stderr)
      [] by = "checkLinuxViaSSH" -> checkLinuxViaSSHCallback(serviceName, hb, err, stdout, stderr)
      [] by = "checkWindowsViaSSH" -> checkWindowsViaSSHCallback(serviceName, hb, err, stdout, stderr)

---------------------------------------------------------------------------
(* Inputs *)

LongText == Rep("x", LongLen)

ServiceNames ==
    { <<>>,
      <<"n","g","i","n","x">>,
      <<"g","e","t","t","y","@","t","t","y","1">>,
      <<"m","y"," ","s","v","c">>,
      <<"i","t","'","s">> }

CheckMethods == { <<>>, StrLocal, StrSsh }

SshUrls ==
    { <<>>,
      <<"s","s","h",":","/","/","h","o","s","t">>,
      <<"s","s","h",":","/","/","u","s","e","r","@","h","o","s","t",":","2","2","2","2">>,
      <<"s","s","h",":","/","/","a","%","4","0","b","@","h","o","s","t">>,
      <<"h","t","t","p",":","/","/","h","o","s","t">>,
      <<"n","o","t"," ","a"," ","u","r","l">>,
      <<"s","s","h",":","/","/">> }

SshPlatforms == { <<>>, StrLinux, StrWin32, StrDarwin }

HostPlatforms == { StrLinux, StrWin32, StrDarwin }

\* a monitor checked locally has its SSH columns unset
Monitors ==
    [system_service_name : ServiceNames, system_service_check_method : {<<>>, StrLocal},
     system_service_ssh_url : {<<>>}, system_service_ssh_platform : {<<>>}]
    \cup
    [system_service_name : ServiceNames, system_service_check_method : {StrSsh},
     system_service_ssh_url : SshUrls, system_service_ssh_platform : SshPlatforms]

Heartbeats == { [status |-> PENDING, msg |-> <<>>], [status |-> DOWN, msg |-> <<>>] }

Stdouts ==
    { <<>>, StrActive, <<"a","c","t","i","v","e","\n">>, <<"i","n","a","c","t","i","v","e">>, StrRunning,
      <<" ","R","u","n","n","i","n","g","\n">>, <<"S","t","o","p","p","e","d">>, LongText }

Stderrs ==
    { <<>>,
      <<"U","n","i","t"," ","f","o","o",".","s","e","r","v","i","c","e"," ","n","o","t"," ","f","o","u","n","d",".">>,
      LongText }

---------------------------------------------------------------------------
(* The invocation *)

NoMonitor ==
    [system_service_name |-> <<>>, system_service_check_method |-> <<>>,
     system_service_ssh_url |-> <<>>, system_service_ssh_platform |-> <<>>]

NoExec == [kind |-> "pending", stdout |-> <<>>, stderr |-> <<>>]

NoCall == [done |-> FALSE, value |-> <<>>]

\* before check() is called; f and a are the pure function under test and its input
Idle(f, a) ==
    /\ monitor = NoMonitor
    /\ platform = StrLinux
    /\ heartbeat = [status |-> PENDING, msg |-> <<>>]
    /\ heartbeat0 = [status |-> PENDING, msg |-> <<>>]
    /\ pc = "idle"
    /\ called = <<>>
    /\ proc = <<>>
    /\ spawned = 0
    /\ error = <<>>
    /\ exec = NoExec
    /\ fn = f
    /\ arg = a
    /\ ret = NoCall

Init == Idle("none", <<>>)

\* the state check() leaves at its first suspension, or at its throw
Enter(r) ==
    /\ called' = r.called
    /\ proc' = r.spawns
    /\ spawned' = Len(r.spawns)
    /\ pc' = IF r.thrown THEN "rejected" ELSE "waiting"
    /\ error' = IF r.thrown THEN r.message ELSE <<>>

\* check(monitor, heartbeat) up to its first suspension
Check(m, os, hb) ==
    /\ pc = "idle"
    /\ fn = "none"
    /\ \E r \in {check(m, os)} : Enter(r)
    /\ monitor' = m
    /\ platform' = os
    /\ heartbeat' = hb
    /\ heartbeat0' = hb
    /\ UNCHANGED <<exec, fn, arg, ret>>

\* the callback settles the promise of check(), unless it is settled already
Settle(r) ==
    /\ heartbeat' = r.heartbeat
    /\ pc' = IF pc = "waiting" THEN r.settle ELSE pc
    /\ error' = IF pc = "waiting" THEN r.message ELSE error

\* the subprocess i ends and execFile calls back
Complete(i, kind, stdout, stderr, state) ==
    /\ i \in 1..Len(proc)
    /\ proc[i].state = "running"
    /\ \E err \in {ExecError(kind, proc[i].cmd, proc[i].args, stderr)} :
          \E r \in {Callback(proc[i].by, monitor.system_service_name, heartbeat,
                             err, stdout, stderr)} :
            Settle(r)
    /\ proc' = [proc EXCEPT ![i].state = state]
    /\ exec' = [kind |-> kind, stdout |-> stdout, stderr |-> stderr]
    /\ UNCHANGED <<monitor, platform, heartbeat0, called, spawned, fn, arg, ret>>

\* the subprocess exits before the timeout, with exit code zero or not
ProcExit(i, zero, stdout, stderr) ==
    Complete(i, IF zero THEN "none" ELSE "exit", stdout, stderr, "exited")

\* the program cannot be started
ProcSpawnError(i) == Complete(i, "spawn", <<>>, <<>>, "failed")

\* a plausible slip: the timeout ends the wait without an error
ProcTimeout_NoError(i, stdout, stderr) == Complete(i, "none", stdout, stderr, "killed")

\* the timeout of execFile elapses: the subprocess is killed, the callback gets an error
ProcTimeout(i, stdout, stderr) == Complete(i, "timeout", stdout, stderr, "killed")

Next ==
    \/ \E m \in Monitors, os \in HostPlatforms, hb \in Heartbeats : Check(m, os, hb)
    \/ \E i \in 1..Len(proc), zero \in BOOLEAN, stdout \in Stdouts, stderr \in Stderrs :
            ProcExit(i, zero, stdout, stderr)
    \/ \E i \in 1..Len(proc) : ProcSpawnError(i)
    \/ \E i \in 1..Len(proc), stdout \in Stdouts, stderr \in Stderrs :
            ProcTimeout(i, stdout, stderr)

Spec == Init /\ [][Next]_vars

\* the timer of execFile fires if the subprocess has not ended by itself
Timeout == \E i \in 1..Len(proc), stdout \in Stdouts, stderr \in Stderrs :
                ProcTimeout(i, stdout, stderr)

SpecLive == Spec /\ WF_vars(Timeout)

---------------------------------------------------------------------------
(* trimOutput on its own *)

Strings(A, n) == UNION { [1..k -> A] : k \in 0..n }

Pads == Strings({" ", "\n"}, MaxPad)

Cores ==
    { Rep("a", n) : n \in { 0, 1, ShortLen, SSH_OUTPUT_MAX_CHARS - 1, SSH_OUTPUT_MAX_CHARS,
                            SSH_OUTPUT_MAX_CHARS + 1, LongLen } }
    \cup { <<"a", " ", "b">>,
           Rep("a", SSH_OUTPUT_MAX_CHARS - 1) \o <<" ">> \o Rep("b", ShortLen) }

TrimInputs == { l \o c \o r : l \in Pads, c \in Cores, r \in Pads }

InitTrim == \E a \in TrimInputs : Idle("trimOutput", a)

CallTrimOutput ==
    /\ fn = "trimOutput"
    /\ ~ret.done
    /\ ret' = [done |-> TRUE, value |-> trimOutput(arg)]
    /\ UNCHANGED <<monitor, platform, heartbeat, heartbeat0, pc, called, proc, spawned,
                   error, exec, fn, arg>>

NextTrim == CallTrimOutput

SpecTrim == InitTrim /\ [][NextTrim]_vars

---------------------------------------------------------------------------
(* escapeSshArg on its own: arg is the list remoteArgs, ret the command line *)
(* execSshCommand hands to ssh                                                *)

EscAlphabet == {"a", "'", "\"", "\\", " ", "$", ";", Backtick, "\n"}

EscInputs ==
    { <<a>> : a \in Strings(EscAlphabet, MaxArgLen) }
    \cup { <<a, b>> : a \in Strings(EscAlphabet, MaxPairLen), b \in Strings(EscAlphabet, MaxPairLen) }

InitEscape == \E a \in EscInputs : Idle("escapeSshArg", a)

CallEscapeSshArg ==
    /\ fn = "escapeSshArg"
    /\ ~ret.done
    /\ ret' = [done |-> TRUE, value |-> RemoteCommand(arg)]
    /\ UNCHANGED <<monitor, platform, heartbeat, heartbeat0, pc, called, proc, spawned,
                   error, exec, fn, arg>>

NextEscape == CallEscapeSshArg

SpecEscape == InitEscape /\ [][NextEscape]_vars

---------------------------------------------------------------------------
(* Vocabulary of the properties, stated apart from the definitions above *)

Strategies == {"checkLinux", "checkWindows", "checkLinuxViaSSH", "checkWindowsViaSSH"}
LinuxStrategies == {"checkLinux", "checkLinuxViaSSH"}
WindowsStrategies == {"checkWindows", "checkWindowsViaSSH"}

Name == monitor.system_service_name
Target == monitor.system_service_ssh_url
Remote == monitor.system_service_check_method = StrSsh
RemotePlatform ==
    IF monitor.system_service_ssh_platform = <<>> THEN StrLinux
    ELSE monitor.system_service_ssh_platform

Done == pc \in {"resolved", "rejected"}

\* the message handed back: heartbeat.msg on success, the Error's message on failure
Message == IF pc = "resolved" THEN heartbeat.msg ELSE error

Chars(s) == {s[i] : i \in 1..Len(s)}

\* the two allow-lists, as sets of characters
MatchesLinux(n) == n # <<>> /\ Chars(n) \subseteq Alnum \cup {".", "_", "-", "@"}
MatchesWindows(n) == n # <<>> /\ Chars(n) \subseteq Alnum \cup {".", "_", "-"}
MatchesAllowList(s, n) == IF s \in LinuxStrategies THEN MatchesLinux(n) ELSE MatchesWindows(n)

InvalidServiceName(s) ==
    IF s \in LinuxStrategies THEN MsgInvalidNameLinux ELSE MsgInvalidNameWindows

\* "Service '<name>' is <what>."
RefServiceIs(n, what) ==
    <<"S","e","r","v","i","c","e"," ","'">> \o n \o <<"'"," ","i","s"," ">> \o what \o <<".">>

\* status UP, message "Service '<name>' is running."
IsUp ==
    /\ pc = "resolved"
    /\ heartbeat = [status |-> UP, msg |-> RefServiceIs(Name, <<"r","u","n","n","i","n","g">>)]

\* s without its leading and trailing white space
RefStrip(s) ==
    LET ink == {i \in 1..Len(s) : s[i] \notin {" ", "\t", "\n", "\r"}}
    IN  IF ink = {} THEN <<>>
        ELSE SubSeq(s, CHOOSE i \in ink : \A j \in 1..(i - 1) : j \notin ink,
                       CHOOSE i \in ink : \A j \in (i + 1)..Len(s) : j \notin ink)

\* t unchanged up to 200 characters, else its first 200 characters and "..."
RefCut(t) == IF Len(t) <= 200 THEN t ELSE SubSeq(t, 1, 200) \o <<".", ".", ".">>

---------------------------------------------------------------------------
(* POSIX shell word splitting and quote removal (XCU 2.2, 2.3), the reference *)
(* of C3: [ok, tokens]; ok = FALSE when a quote is left open or a character   *)
(* is met that the shell does not take literally.                             *)

ShFailure == [ok |-> FALSE, tokens |-> <<>>]

ShSpecial == {"$", ";", Backtick, "&", "|", "<", ">", "(", ")", "#", "*", "?", "~"}

RECURSIVE ShScan(_, _, _, _, _, _)
ShScan(s, i, mode, cur, open, toks) ==
    IF i > Len(s)
    THEN IF mode # "plain" THEN ShFailure
         ELSE [ok |-> TRUE, tokens |-> IF open THEN Append(toks, cur) ELSE toks]
    ELSE IF mode = "single"
    THEN IF s[i] = "'" THEN ShScan(s, i + 1, "plain", cur, TRUE, toks)
         ELSE ShScan(s, i + 1, "single", Append(cur, s[i]), TRUE, toks)
    ELSE IF mode = "double"
    THEN IF s[i] = "\"" THEN ShScan(s, i + 1, "plain", cur, TRUE, toks)
         ELSE IF s[i] \in {"$", Backtick} THEN ShFailure
         ELSE IF s[i] = "\\" /\ i < Len(s) /\ s[i + 1] \in {"$", Backtick, "\"", "\\"}
         THEN ShScan(s, i + 2, "double", Append(cur, s[i + 1]), TRUE, toks)
         ELSE IF s[i] = "\\" /\ i < Len(s) /\ s[i + 1] = "\n"
         THEN ShScan(s, i + 2, "double", cur, TRUE, toks)
         ELSE ShScan(s, i + 1, "double", Append(cur, s[i]), TRUE, toks)
    ELSE IF s[i] \in {" ", "\t", "\n"}
    THEN ShScan(s, i + 1, "plain", <<>>, FALSE, IF open THEN Append(toks, cur) ELSE toks)
    ELSE IF s[i] = "'" THEN ShScan(s, i + 1, "single", cur, TRUE, toks)
    ELSE IF s[i] = "\"" THEN ShScan(s, i + 1, "double", cur, TRUE, toks)
    ELSE IF s[i] = "\\"
    THEN IF i = Len(s) THEN ShFailure
         ELSE IF s[i + 1] = "\n" THEN ShScan(s, i + 2, "plain", cur, open, toks)
         ELSE ShScan(s, i + 2, "plain", Append(cur, s[i + 1]), TRUE, toks)
    ELSE IF s[i] \in ShSpecial THEN ShFailure
    ELSE ShScan(s, i + 1, "plain", Append(cur, s[i]), TRUE, toks)

ShTokens(s) == ShScan(s, 1, "plain", <<>>, FALSE, <<>>)

---------------------------------------------------------------------------
(* C1 *)

\* C1: a strategy entered with a service name outside its allow-list has rejected
\* with its InvalidServiceName message, and no subprocess was spawned.
C1_InvalidNameRejectedBeforeSpawn ==
    \A s \in Strategies :
        (called = <<s>> /\ ~MatchesAllowList(s, Name)) =>
            /\ pc = "rejected"
            /\ error = InvalidServiceName(s)
            /\ spawned = 0
            /\ proc = <<>>
            /\ exec = NoExec

\* C1 witness: checkWindows rejected a name the Linux allow-list accepts
C1_Witness ==
    /\ called = <<"checkWindows">>
    /\ "@" \in Chars(Name)
    /\ MatchesLinux(Name)
    /\ pc = "rejected"
    /\ spawned = 0

---------------------------------------------------------------------------
(* C2 *)

\* C2 as claimed: the message handed back has at most 203 characters.
C2_MessageAtMost203 == Done => Len(Message) <= 203

\* C2, amended: after a strategy ran, the message handed back has at most
\* 218 characters plus the service name: the subprocess output in it is cut to 203
\* characters, and the wrapper "Service '<name>' is <output>." adds 15 and the name.
C2_MessageBoundedByWrapper ==
    (Done /\ called # <<>>) => Len(Message) <= 203 + 15 + Len(Name)

\* C2 witness: a remote Linux check failed with 500 characters on stderr, and its
\* message is longer than 203 characters
C2_Witness ==
    /\ called = <<"checkLinuxViaSSH">>
    /\ pc = "rejected"
    /\ Len(exec.stderr) = LongLen
    /\ Len(Message) > 203

---------------------------------------------------------------------------
(* C3 *)

\* C3: the command line built from the escaped arguments splits, under the shell's
\* quoting rules, into exactly the original arguments; "" is escaped to ''.
C3_EscapeRoundTrips ==
    (fn = "escapeSshArg" /\ ret.done) =>
        /\ ShTokens(ret.value) = [ok |-> TRUE, tokens |-> arg]
        /\ (arg = << <<>> >>) => ret.value = <<"'", "'">>

\* C3 witness: an argument holding a single quote, a grave accent and a newline
\* has been escaped
C3_Witness ==
    /\ fn = "escapeSshArg"
    /\ ret.done
    /\ arg = << <<"'", Backtick, "\n">> >>

---------------------------------------------------------------------------
(* C4 *)

BadTargets ==
    { <<"n","o","t"," ","a"," ","u","r","l">>,
      <<"h","t","t","p",":","/","/","h","o","s","t">>,
      <<"s","s","h",":","/","/">> }

RemoteStrategy == IF RemotePlatform = StrWin32 THEN "checkWindowsViaSSH" ELSE "checkLinuxViaSSH"

\* the failures the caller sees when the remote command ran
RanAndFailed(by, n) ==
    { Callback(by, n, heartbeat0, ExecError(k, StrSsh, <<>>, se), so, se).message :
        k \in {"none", "exit"}, so \in Stdouts, se \in Stderrs }

\* C4 as claimed: a remote check with a valid name and a malformed, non-ssh or
\* host-less target fails without a spawn, with a failure the caller can tell from
\* that of a command that ran.
C4_InvalidTargetDistinguishable ==
    ( /\ pc # "idle"
      /\ Remote
      /\ Target \in BadTargets
      /\ RemotePlatform \in {StrLinux, StrWin32}
      /\ MatchesAllowList(RemoteStrategy, Name) ) =>
        /\ pc = "rejected"
        /\ spawned = 0
        /\ error \notin RanAndFailed(RemoteStrategy, Name)

---------------------------------------------------------------------------
(* C5 *)

UnsupportedMessages ==
    { MsgUnsupportedLocal(os) : os \in HostPlatforms } \cup { MsgUnsupportedSsh(p) : p \in SshPlatforms }

\* exactly one strategy was delegated to
DelegatedToOne ==
    /\ Len(called) = 1
    /\ called[1] \in Strategies
    /\ error \notin UnsupportedMessages

\* UnsupportedPlatform, with no strategy run
FailedUnsupported ==
    /\ called = <<>>
    /\ spawned = 0
    /\ pc = "rejected"
    /\ \/ Remote /\ RemotePlatform \notin {StrLinux, StrWin32}
             /\ error = MsgUnsupportedSsh(RemotePlatform)
       \/ ~Remote /\ platform \notin {StrLinux, StrWin32}
             /\ error = MsgUnsupportedLocal(platform)

\* MissingConfiguration: the remote method without a target, with no strategy run
FailedMissingTarget ==
    /\ Remote
    /\ Target = <<>>
    /\ called = <<>>
    /\ spawned = 0
    /\ pc = "rejected"
    /\ error = MsgSshTargetRequired

\* C5 as claimed: with a service name, check() delegates to exactly one strategy or
\* fails with UnsupportedPlatform; at most one subprocess is spawned.
C5_OneStrategyOrUnsupported ==
    (pc # "idle" /\ Name # <<>>) =>
        /\ DelegatedToOne \/ FailedUnsupported
        /\ spawned <= 1

C5_AmendedState ==
    (pc # "idle" /\ Name # <<>>) =>
        /\ DelegatedToOne \/ FailedUnsupported \/ FailedMissingTarget
        /\ spawned <= 1
        /\ Len(proc) = spawned

\* C5, amended: with a service name, check() delegates to exactly one strategy, or
\* fails with UnsupportedPlatform, or (remote method, no target) fails with
\* MissingConfiguration, the last two with no strategy run; at most one subprocess
\* is spawned, and none after a failure.
C5_OneStrategyOrUnsupportedOrMissing ==
    /\ []C5_AmendedState
    /\ [][pc = "rejected" => (spawned' = spawned /\ Len(proc') = Len(proc))]_vars

\* C5 witness: the remote method with a service name and no target failed with
\* "SSH Target is required." and ran no strategy
C5_Witness ==
    /\ Name # <<>>
    /\ FailedMissingTarget

---------------------------------------------------------------------------
(* C6 *)

\* C6: a check that waits for its subprocess ends; a subprocess killed at the
\* timeout leaves the check failed, never UP, and no subprocess running.
C6_TimeoutEndsTheCheck ==
    /\ (pc = "waiting") ~> Done
    /\ [](\A i \in 1..Len(proc) :
            proc[i].state = "killed" =>
                /\ exec.kind = "timeout"
                /\ pc = "rejected"
                /\ error # <<>>
                /\ heartbeat.status # UP)

\* C6 witness: the subprocess of a local Linux check was killed at the timeout
C6_Witness ==
    /\ called = <<"checkLinux">>
    /\ Len(proc) = 1
    /\ proc[1].state = "killed"
    /\ pc = "rejected"

---------------------------------------------------------------------------
(* C7 *)

\* C7: trimOutput gives the stripped input unchanged up to 200 characters, and
\* otherwise its first 200 characters followed by "...", 203 characters in all.
C7_TrimOutputIsReference ==
    (fn = "trimOutput" /\ ret.done) =>
        LET t == RefStrip(arg)
        IN  /\ Len(t) <= 200 => ret.value = t
            /\ Len(t) > 200 =>
                /\ Len(ret.value) = 203
                /\ SubSeq(ret.value, 1, 200) = SubSeq(t, 1, 200)
                /\ SubSeq(ret.value, 201, 203) = <<".", ".", ".">>

\* C7 witness: a capture of more than 200 characters between white space was cut
C7_Witness ==
    /\ fn = "trimOutput"
    /\ ret.done
    /\ arg # <<>>
    /\ arg[1] = "\n"
    /\ Len(RefStrip(arg)) > 200
    /\ Len(ret.value) = 203

---------------------------------------------------------------------------
(* C8 *)

\* C8 as claimed: on both Linux strategies a command that exits with code zero
\* gives UP and the running message, whatever it wrote.
C8_LinuxSuccessIsUp ==
    (exec.kind = "none" /\ Len(called) = 1 /\ called[1] \in LinuxStrategies) => IsUp

\* C8, amended: the local Linux strategy gives UP and the running message whenever
\* the command exits with code zero; the remote one does so when, in addition, the
\* stripped stdout is "active", and fails otherwise.
C8_LinuxSuccessIsUpIfActive ==
    /\ (exec.kind = "none" /\ called = <<"checkLinux">>) => IsUp
    /\ (exec.kind = "none" /\ called = <<"checkLinuxViaSSH">>) =>
            IF RefStrip(exec.stdout) = <<"a","c","t","i","v","e">> THEN IsUp
            ELSE pc = "rejected" /\ heartbeat.status # UP

\* C8 witness: a remote Linux command exited with code zero and stdout "active\n"
C8_Witness ==
    /\ called = <<"checkLinuxViaSSH">>
    /\ MatchesLinux(Name)
    /\ exec.kind = "none"
    /\ exec.stdout = <<"a","c","t","i","v","e","\n">>
    /\ IsUp

---------------------------------------------------------------------------
(* C9 *)

\* C9 as claimed: on both Windows strategies the stripped output of a completed
\* status query gives UP when it is "Running", and otherwise the failure
\* "Service '<name>' is <output>.".
C9_WindowsStatusLiteral ==
    (exec.kind = "none" /\ Len(called) = 1 /\ called[1] \in WindowsStrategies) =>
        IF RefStrip(exec.stdout) = <<"R","u","n","n","i","n","g">> THEN IsUp
        ELSE pc = "rejected" /\ error = RefServiceIs(Name, RefStrip(exec.stdout))

\* C9, amended: the stdout of a completed status query is stripped and cut to 200
\* characters plus "..."; "Running" gives UP, any other output the failure
\* "Service '<name>' is <output>." with that stripped and cut output, except that
\* the remote strategy writes "not running" for an empty output and the local one
\* fails with "Service '<name>' is not running/found." when the query wrote to stderr.
C9_WindowsStatusCutAndFallbacks ==
    /\ (exec.kind = "none" /\ called = <<"checkWindows">>) =>
            IF exec.stderr # <<>>
            THEN pc = "rejected"
                 /\ error = RefServiceIs(Name, <<"n","o","t"," ","r","u","n","n","i","n","g","/","f","o","u","n","d">>)
            ELSE IF RefCut(RefStrip(exec.stdout)) = <<"R","u","n","n","i","n","g">> THEN IsUp
            ELSE pc = "rejected" /\ error = RefServiceIs(Name, RefCut(RefStrip(exec.stdout)))
    /\ (exec.kind = "none" /\ called = <<"checkWindowsViaSSH">>) =>
            IF RefCut(RefStrip(exec.stdout)) = <<"R","u","n","n","i","n","g">> THEN IsUp
            ELSE IF RefStrip(exec.stdout) = <<>>
            THEN pc = "rejected"
                 /\ error = RefServiceIs(Name, <<"n","o","t"," ","r","u","n","n","i","n","g">>)
            ELSE pc = "rejected" /\ error = RefServiceIs(Name, RefCut(RefStrip(exec.stdout)))

\* C9 witness: a local status query printed "Stopped" and the check failed with
\* "Service 'nginx' is Stopped."
C9_Witness ==
    /\ called = <<"checkWindows">>
    /\ exec.kind = "none"
    /\ exec.stderr = <<>>
    /\ exec.stdout = <<"S","t","o","p","p","e","d">>
    /\ error = <<"S","e","r","v","i","c","e"," ","'","n","g","i","n","x","'"," ","i","s"," ","S","t","o","p","p","e","d",".">>

---------------------------------------------------------------------------
(* C10 *)

\* C10: unless check() resolved, the heartbeat is as the caller handed it in; a
\* heartbeat that was written has status UP and the running message, and a
\* subprocess of the invocation has exited without error.
C10_HeartbeatWrittenOnlyOnSuccess ==
    /\ pc # "resolved" => heartbeat = heartbeat0
    /\ (heartbeat # heartbeat0 \/ heartbeat.status = UP) =>
            /\ heartbeat = [status |-> UP, msg |-> RefServiceIs(Name, <<"r","u","n","n","i","n","g">>)]
            /\ exec.kind = "none"
            /\ \E i \in 1..Len(proc) : proc[i].state = "exited"

\* C10 witness: a remote command ran and the check failed, the heartbeat still
\* as handed in with status DOWN
C10_Witness ==
    /\ pc = "rejected"
    /\ exec.kind = "exit"
    /\ Len(called) = 1
    /\ called[1] \in {"checkLinuxViaSSH", "checkWindowsViaSSH"}
    /\ heartbeat0.status = DOWN
    /\ heartbeat = heartbeat0

===========================================================================
